---- MODULE Spec2Model ----
(***************************************************************************)
(* Model of scripts/calculate_coverage.py: the command-line entry point    *)
(* main, the JSON extractor calculate_from_json and the gcov-runner        *)
(* extractor calculate_from_gcov.                                          *)
(*                                                                         *)
(* Conventions.                                                            *)
(*  - A Python str is a tuple of one-character strings, so that the        *)
(*    substring test `pattern in filename` is computed, not assumed.       *)
(*  - Python None is NoneStr for a path argument, the empty tuple for      *)
(*    current_file and for args.filters (both are only tested for          *)
(*    truthiness), and NoCoverage for a float | None result.               *)
(*  - A Python float is a binary64 value [neg, m, e] = (-1)^neg * m * 2^e   *)
(*    with a 53-bit m; every float operation of the script is computed     *)
(*    with the rounding of the machine, on natural numbers of any size.    *)
(*  - An uncaught Python exception ends the process with a traceback on    *)
(*    standard error and exit status 1.                                    *)
(***************************************************************************)
EXTENDS Integers, Sequences, FiniteSets

\* ------------------------------------------------------------------ bounds
MaxFilters == 2     \* most -f options on a command line
MaxRecords == 2     \* most records in the 'files' sequence of a document
MaxGcda    == 2     \* most .gcda files discovery returns
MaxLines   == 4     \* most lines of gcov output scanned in one run of main
ScanLines  == 6     \* the same, in the specification of the scanner alone

\* ----------------------------------------------------------------- strings
SrcSlash == <<"s", "r", "c", "/">>
TSlash   == <<"t", "/">>
NameSrcA == <<"s", "r", "c", "/", "a">>
NameLibA == <<"l", "/", "s", "r", "c", "/", "a">>
NameTB   == <<"t", "/", "b">>
EmptyStr == <<>>
NoneStr  == "None"

\* Faulty variant of IsSubstring: s.startswith(p).
IsPrefix(p, s) ==
    /\ Len(p) <= Len(s)
    /\ SubSeq(s, 1, Len(p)) = p

\* `p in s` for two Python strings.
IsSubstring(p, s) ==
    \E i \in 0..(Len(s) - Len(p)) : SubSeq(s, i + 1, i + Len(p)) = p

\* any(pattern in filename for pattern in filters)
Matches(filename, fs) ==
    \E k \in 1..Len(fs) : IsSubstring(fs[k], filename)

\* dict.get(key, default)
Get(d, key, default) == IF key \in DOMAIN d THEN d[key] ELSE default

\* ------------------------------------------------- natural numbers, any size
\* A natural number is the little-endian sequence of its limbs below Base,
\* without a leading zero limb; <<>> is zero.  Limbs have 15 bits, so a
\* product of two limbs plus a carry stays a machine integer.
Base == 2^15

RECURSIVE NatOf(_)
NatOf(n) == IF n = 0 THEN <<>> ELSE <<n % Base>> \o NatOf(n \div Base)

RECURSIVE IntOf(_)
IntOf(x) == IF x = <<>> THEN 0 ELSE x[1] + Base * IntOf(Tail(x))

Limb(x, i) == IF i <= Len(x) THEN x[i] ELSE 0

RECURSIVE Trim(_)
Trim(x) == IF x # <<>> /\ x[Len(x)] = 0
           THEN Trim(SubSeq(x, 1, Len(x) - 1)) ELSE x

RECURSIVE AddFrom(_, _, _, _)
AddFrom(x, y, i, carry) ==
    IF i > Len(x) /\ i > Len(y)
    THEN IF carry = 0 THEN <<>> ELSE <<carry>>
    ELSE LET s == Limb(x, i) + Limb(y, i) + carry
         IN  <<s % Base>> \o AddFrom(x, y, i + 1, s \div Base)

AddNat(x, y) == AddFrom(x, y, 1, 0)

RECURSIVE MulLimbFrom(_, _, _, _)
MulLimbFrom(x, k, i, carry) ==
    IF i > Len(x) THEN IF carry = 0 THEN <<>> ELSE <<carry>>
    ELSE LET p == x[i] * k + carry
         IN  <<p % Base>> \o MulLimbFrom(x, k, i + 1, p \div Base)

\* x * k for a limb k
MulLimb(x, k) == IF k = 0 THEN <<>> ELSE MulLimbFrom(x, k, 1, 0)

\* x * Base^n
ShiftLimbs(x, n) == IF x = <<>> THEN <<>> ELSE [i \in 1..n |-> 0] \o x

RECURSIVE MulFrom(_, _, _)
MulFrom(x, y, j) ==
    IF j > Len(y) THEN <<>>
    ELSE AddNat(ShiftLimbs(MulLimb(x, y[j]), j - 1), MulFrom(x, y, j + 1))

MulNat(x, y) == MulFrom(x, y, 1)

\* x * 2^n
Shl(x, n) == ShiftLimbs(MulLimb(x, 2^(n % 15)), n \div 15)

\* floor(x / 2^n)
Shr(x, n) ==
    LET w == n \div 15
        b == n % 15
    IN  IF Len(x) <= w THEN <<>>
        ELSE Trim([i \in 1..(Len(x) - w) |->
                      (x[i + w] \div 2^b) + (Limb(x, i + w + 1) % 2^b) * 2^(15 - b)])

RECURSIVE BitLenInt(_)
BitLenInt(v) == IF v = 0 THEN 0 ELSE 1 + BitLenInt(v \div 2)

BitLen(x) == IF x = <<>> THEN 0 ELSE 15 * (Len(x) - 1) + BitLenInt(x[Len(x)])

Bit(x, i) == (Limb(x, i \div 15 + 1) \div 2^(i % 15)) % 2

\* (x + t) / 2^n rounded to the nearest integer, ties to even, where
\* 0 <= t < 1 and sticky says that t > 0 (n >= 1 when sticky).
RoundShr(x, n, sticky) ==
    IF n = 0 THEN x
    ELSE LET q     == Shr(x, n)
             guard == Bit(x, n - 1) = 1
             rest  == sticky \/ Shl(Shr(x, n - 1), n - 1) # x
         IN  IF guard /\ (rest \/ Bit(x, n) = 1) THEN AddNat(q, <<1>>) ELSE q

RECURSIVE DivBits(_, _, _, _, _)
\* long division of the bits b..0 of the limb v, entered with remainder r
DivBits(v, d, b, r, q) ==
    IF b < 0 THEN [q |-> q, r |-> r]
    ELSE LET r2 == 2 * r + ((v \div 2^b) % 2)
         IN  IF r2 >= d THEN DivBits(v, d, b - 1, r2 - d, 2 * q + 1)
             ELSE DivBits(v, d, b - 1, r2, 2 * q)

RECURSIVE DivFrom(_, _, _, _)
DivFrom(x, d, i, r) ==
    IF i = 0 THEN [q |-> <<>>, r |-> r]
    ELSE LET here == DivBits(x[i], d, 14, r, 0)
             rest == DivFrom(x, d, i - 1, here.r)
         IN  [q |-> rest.q \o <<here.q>>, r |-> rest.r]

\* quotient and remainder of x by a machine integer 0 < d < 2^30
DivMod(x, d) == LET dm == DivFrom(x, d, Len(x), 0)
                IN  [q |-> Trim(dm.q), r |-> dm.r]

\* ---------------------------------------------------- Python floats (binary64)
\* A finite float is [neg, m, e] with value (-1)^neg * m * 2^e, where m is a
\* natural number of exactly 53 bits, or zero with e = 0.  Every operation
\* rounds its exact result to the nearest float, ties to even.  Subnormals,
\* infinities and NaN are outside the values of a coverage computation.
Zero == [neg |-> FALSE, m |-> <<>>, e |-> 0]

\* the float nearest to (-1)^neg * (x + t) * 2^e
ToFloat(neg, x, e, sticky) ==
    LET len == BitLen(x)
    IN  IF x = <<>> THEN Zero
        ELSE IF len <= 53
        THEN [neg |-> neg, m |-> Shl(x, 53 - len), e |-> e - (53 - len)]
        ELSE LET r == RoundShr(x, len - 53, sticky)
             IN  IF BitLen(r) > 53
                 THEN [neg |-> neg, m |-> Shr(r, 1), e |-> e + (len - 53) + 1]
                 ELSE [neg |-> neg, m |-> r, e |-> e + (len - 53)]

\* float(n) of an int
FloatOf(n) == IF n < 0 THEN ToFloat(TRUE, NatOf(-n), 0, FALSE)
              ELSE ToFloat(FALSE, NatOf(n), 0, FALSE)

\* a * b
MulF(a, b) == IF a.m = <<>> \/ b.m = <<>> THEN Zero
              ELSE ToFloat(a.neg # b.neg, MulNat(a.m, b.m), a.e + b.e, FALSE)

\* a / d for a machine integer 0 < d < 2^30
DivF(a, d) ==
    IF a.m = <<>> THEN Zero
    ELSE LET dm == DivMod(Shl(a.m, 32), d)
         IN  ToFloat(a.neg, dm.q, a.e - 32, dm.r # 0)

\* int(a): truncation towards zero
IntF(a) ==
    LET mag == IF a.e >= 0 THEN IntOf(Shl(a.m, a.e)) ELSE IntOf(Shr(a.m, -a.e))
    IN  IF a.neg THEN -mag ELSE mag

\* float(text) for a text of digits with two decimals, pct its hundredths
FloatOfHundredths(pct) == DivF(FloatOf(pct), 100)

\* ------------------------------------------------------------- percentages
DigitChar(d) == <<"0", "1", "2", "3", "4", "5", "6", "7", "8", "9">>[d + 1]

RECURSIVE Digits(_)
Digits(n) == IF n < 10 THEN <<DigitChar(n)>>
             ELSE Digits(n \div 10) \o <<DigitChar(n % 10)>>

\* the tenths of f"{coverage:.1f}": |coverage| * 10 rounded to the nearest
\* integer, ties to even, on the exact value of the float
RoundHalfEven(c) ==
    LET x == MulLimb(c.m, 10)
    IN  IntOf(IF c.e >= 0 THEN Shl(x, c.e) ELSE RoundShr(x, -c.e, FALSE))

\* f"{coverage:.1f}"
Format1(c) ==
    LET t == RoundHalfEven(c)
    IN  (IF c.neg THEN <<"-">> ELSE <<>>)
        \o Digits(t \div 10) \o <<".">> \o <<DigitChar(t % 10)>>

\* ------------------------------------------------------------------ inputs
PatternPool == {SrcSlash, TSlash}

\* args.filters: the -f values in order; no -f at all leaves it None.
FilterLists == UNION {[1..k -> PatternPool] : k \in 0..MaxFilters}

\* The command line as argparse sees it.  help: the parser reaches a -h or
\* --help, wherever it stands, before any usage error (so `--json a -h` has
\* help, and `--json a --gcov-dir b -h`, rejected at --gcov-dir, has not).
ArgvPool ==
    [json     : {NoneStr, "", "cov.json"},
     gcov_dir : {NoneStr, "build"},
     filters  : FilterLists,
     help     : BOOLEAN]

JsonNames == {NameSrcA, NameLibA, NameTB}

\* File records of a summary document; the last three lack keys or carry
\* more covered lines than lines.
RecordPool ==
    [filename : JsonNames, line_total : {0, 80}, line_covered : {23, 49}]
    \cup {[filename |-> NameSrcA],
          [line_total |-> 80, line_covered |-> 49],
          [filename |-> NameSrcA, line_total |-> 80, line_covered |-> 120]}

\* json.load results: a mapping with a 'files' sequence, or another JSON
\* value (here an array), which has no .get.
Documents ==
    {[shape |-> "array", files |-> <<>>]}
    \cup {[shape |-> "object", files |-> fs] :
            fs \in UNION {[1..k -> RecordPool] : k \in 0..MaxRecords}}

\* What open() + json.load() can do.
LoadOutcomes == {"ok", "FileNotFoundError", "JSONDecodeError", "OSError"}

\* Paths gcov reports.
GcovNames == {NameLibA, NameTB}

\* One line of the captured text, as the two regular expressions see it:
\*   lead  text stands before the File '...' part (so .match fails),
\*   file  the path inside File '...', EmptyStr when the line has none,
\*   pct   the percentage of "Lines executed:P% of N" in hundredths of a
\*         percent ("75.00" is 7500), -1 when the line has none,
\*   of    the N of that text.
Line(lead, file, pct, of) == [lead |-> lead, file |-> file, pct |-> pct, of |-> of]

HeaderLines == {Line(FALSE, f, -1, -1) : f \in GcovNames}

\* 18.40% of 375, 100.00% of 375, 150.00% of 3
CoverageLines == {Line(FALSE, EmptyStr, 1840, 375), Line(FALSE, EmptyStr, 10000, 375),
                  Line(FALSE, EmptyStr, 15000, 3)}

OtherLines == {Line(TRUE, NameTB, -1, -1),         \* "  File 't/b'"
               Line(FALSE, NameLibA, 10000, 4)}    \* header and numbers on one line

LinePool == HeaderLines \cup CoverageLines \cup OtherLines

\* ------------------------------------------------ the two float computations
\* covered = int(total * percent / 100), percent = float(group 1)
CoveredFloat(pct, total) ==
    IntF(DivF(MulF(FloatOf(total), FloatOfHundredths(pct)), 100))

\* ... computed once for the coverage-number lines of the pool
CoveredKnown ==
    [p \in {<<l.pct, l.of>> : l \in CoverageLines} |-> CoveredFloat(p[1], p[2])]

Covered(pct, total) ==
    IF <<pct, total>> \in DOMAIN CoveredKnown THEN CoveredKnown[<<pct, total>>]
    ELSE CoveredFloat(pct, total)

NoCoverage == [some |-> FALSE, neg |-> FALSE, m |-> <<>>, e |-> 0]

\* coverage_pct = (covered_lines / total_lines) * 100
PctFloat(covered, total) ==
    LET f == MulF(DivF(FloatOf(covered), total), FloatOf(100))
    IN  [some |-> TRUE, neg |-> f.neg, m |-> f.m, e |-> f.e]

\* The sums of at most k of the pairs of S.
RECURSIVE SumsOf(_, _)
SumsOf(S, k) ==
    IF k = 0 THEN {<<0, 0>>}
    ELSE LET T == SumsOf(S, k - 1)
         IN  T \cup {<<a[1] + b[1], a[2] + b[2]>> : a \in T, b \in S}

\* ... computed once for the sums the pools give rise to
PctKnown ==
    LET json == {<<Get(r, "line_covered", 0), r.line_total>> :
                    r \in {x \in RecordPool : Get(x, "line_total", 0) > 0}}
        gcov == {<<CoveredKnown[<<l.pct, l.of>>], l.of>> : l \in CoverageLines}
        sums == SumsOf(json, MaxRecords) \cup SumsOf(gcov, Cardinality(GcovNames))
    IN  [p \in {q \in sums : q[2] > 0} |-> PctFloat(p[1], p[2])]

Pct(covered, total) ==
    IF <<covered, total>> \in DOMAIN PctKnown THEN PctKnown[<<covered, total>>]
    ELSE PctFloat(covered, total)

\* ------------------------------------------------------------------- state
VARIABLES
    pc,             \* position in main
    args,           \* the command line
    filters,        \* main: filters
    data,           \* calculate_from_json: data
    idx,            \* index of the next record / data file (1-based)
    total_lines, covered_lines, matched_files,
    gcda_files,     \* calculate_from_gcov: number of discovered .gcda files
    current_file,   \* the scanner cursor
    file_coverage,  \* insertion-ordered dict: sequence of [name, cov, total]
    coverage,       \* the extractor's return value
    stdout, stderr, \* lines written so far
    exit,           \* process exit status, -1 while running
    hist            \* history of the run (not program state)

vars == <<pc, args, filters, data, idx, total_lines, covered_lines,
          matched_files, gcda_files, current_file, file_coverage,
          coverage, stdout, stderr, exit, hist>>

jsonVars == <<data, total_lines, covered_lines, matched_files>>
gcovVars == <<gcda_files, current_file, file_coverage>>
outVars  == <<stdout, stderr, exit>>

HelpText == <<<<"u", "s", "a", "g", "e">>, <<"o", "p", "t", "i", "o", "n", "s">>>>

Diag(tag) == [tag |-> tag, run |-> 0]
DiagRun(tag, i) == [tag |-> tag, run |-> i]

NoLine == [lead |-> FALSE, file |-> EmptyStr, pct |-> -1, of |-> -1]

Hist0 ==
    [runs      |-> <<>>,   \* outcome of each gcov invocation, in order
     reports   |-> <<>>,   \* every (header, coverage line) pair applied
     lastHdr   |-> [run |-> 0, file |-> EmptyStr],
                           \* the most recent header line: its invocation
                           \* and its path
     used      |-> FALSE,  \* that header line was paired with numbers
     line      |-> NoLine, \* the line the scanner processed last
     applied   |-> FALSE,  \* ... and whether it went into the table
     scanned   |-> 0,      \* lines scanned so far, over all invocations
     loaded    |-> "none"] \* outcome of open() + json.load()

Init ==
    /\ pc = "start"
    /\ args \in ArgvPool
    /\ filters = <<>>
    /\ data = [shape |-> "object", files |-> <<>>]
    /\ idx = 0
    /\ total_lines = 0
    /\ covered_lines = 0
    /\ matched_files = <<>>
    /\ gcda_files = 0
    /\ current_file = EmptyStr
    /\ file_coverage = <<>>
    /\ coverage = NoCoverage
    /\ stdout = <<>>
    /\ stderr = <<>>
    /\ exit = -1
    /\ hist = Hist0

\* An exception nothing catches: traceback on stderr, exit status 1.
Crash(exc) ==
    /\ pc' = "exited"
    /\ stderr' = Append(stderr, Diag(exc))
    /\ exit' = 1
    /\ UNCHANGED stdout

\* ---------------------------------------------------------------- main (1)
\* args.filters if args.filters else ['src/']
EffectiveFilters(fs) == IF fs # <<>> THEN fs ELSE <<SrcSlash>>

\* parser.parse_args(): -h prints the help and exits 0; a missing or a
\* doubled source option is a usage error, exit status 2.
ParseHelp ==
    /\ pc = "start"
    /\ args.help
    /\ pc' = "exited"
    /\ stdout' = stdout \o HelpText
    /\ exit' = 0
    /\ UNCHANGED <<args, filters, idx, coverage, stderr, hist>>
    /\ UNCHANGED jsonVars /\ UNCHANGED gcovVars

ParseError ==
    /\ pc = "start"
    /\ ~args.help
    /\ (args.json = NoneStr) = (args.gcov_dir = NoneStr)
    /\ pc' = "exited"
    /\ stderr' = Append(stderr, Diag("usage"))
    /\ exit' = 2
    /\ UNCHANGED <<args, filters, idx, coverage, stdout, hist>>
    /\ UNCHANGED jsonVars /\ UNCHANGED gcovVars

\* `if args.json:` is a truthiness test: --json '' selects the gcov branch.
Dispatch ==
    /\ pc = "start"
    /\ ~args.help
    /\ (args.json = NoneStr) # (args.gcov_dir = NoneStr)
    /\ filters' = EffectiveFilters(args.filters)
    /\ pc' = IF args.json \notin {NoneStr, ""} THEN "json_load" ELSE "gcov_discover"
    /\ UNCHANGED <<args, idx, coverage, hist>>
    /\ UNCHANGED jsonVars /\ UNCHANGED gcovVars /\ UNCHANGED outVars

\* ------------------------------------------------------ calculate_from_json
\* open + json.load, and the except clause.
JsonLoad ==
    /\ pc = "json_load"
    /\ \E o \in LoadOutcomes :
        /\ hist' = [hist EXCEPT !.loaded = o]
        /\ CASE o \in {"FileNotFoundError", "JSONDecodeError"} ->
                  /\ stderr' = Append(stderr, Diag("read_error"))
                  /\ coverage' = NoCoverage
                  /\ pc' = "main_ret"
                  /\ UNCHANGED <<data, idx, stdout, exit>>
             [] o = "OSError" ->
                  /\ Crash("traceback")
                  /\ UNCHANGED <<data, idx, coverage>>
             [] o = "ok" ->
                  /\ data' \in Documents
                  /\ idx' = 1
                  /\ pc' = "json_loop"
                  /\ UNCHANGED <<coverage, stdout, stderr, exit>>
    /\ UNCHANGED <<args, filters, total_lines, covered_lines, matched_files>>
    /\ UNCHANGED gcovVars

\* data.get on a value that is not a mapping raises AttributeError.
JsonBadShape ==
    /\ pc = "json_loop"
    /\ data.shape # "object"
    /\ Crash("traceback")
    /\ UNCHANGED <<args, filters, idx, coverage, hist>>
    /\ UNCHANGED jsonVars /\ UNCHANGED gcovVars

\* Faulty variant of Counts: without the test line_total > 0.
CountsZeroTotal(rec, fs) ==
    Matches(Get(rec, "filename", EmptyStr), fs)

\* The record is added iff its filename matches and line_total > 0.
Counts(rec, fs) ==
    /\ Matches(Get(rec, "filename", EmptyStr), fs)
    /\ Get(rec, "line_total", 0) > 0

\* One iteration of `for file_entry in data.get('files', [])`.
JsonRecord ==
    /\ pc = "json_loop"
    /\ data.shape = "object"
    /\ idx <= Len(data.files)
    /\ LET rec == data.files[idx] IN
         IF Counts(rec, filters)
         THEN /\ total_lines' = total_lines + Get(rec, "line_total", 0)
              /\ covered_lines' = covered_lines + Get(rec, "line_covered", 0)
              /\ matched_files' = Append(matched_files, Get(rec, "filename", EmptyStr))
         ELSE UNCHANGED <<total_lines, covered_lines, matched_files>>
    /\ idx' = idx + 1
    /\ UNCHANGED <<pc, args, filters, data, coverage, hist>>
    /\ UNCHANGED gcovVars /\ UNCHANGED outVars

\* After the loop: the no-match warning or the percentage.
JsonFinish ==
    /\ pc = "json_loop"
    /\ data.shape = "object"
    /\ idx > Len(data.files)
    /\ IF total_lines = 0
       THEN /\ stderr' = Append(stderr, Diag("no_match"))
            /\ coverage' = NoCoverage
       ELSE /\ stderr' = Append(stderr, Diag("matched"))
            /\ coverage' = Pct(covered_lines, total_lines)
    /\ pc' = "main_ret"
    /\ UNCHANGED <<args, filters, idx, stdout, exit, hist>>
    /\ UNCHANGED jsonVars /\ UNCHANGED gcovVars

\* ------------------------------------------------------ calculate_from_gcov
\* What subprocess.run(["gcov", name], ..., timeout=30) can do: return (gcov
\* exited 0, or non-zero because it could not read the data file), or raise.
RunOutcomes == {"ok", "nonzero", "TimeoutExpired", "FileNotFoundError", "PermissionError"}

\* How an invocation ended, as the history keeps it: what it returned with,
\* "caught" for an exception of the except clause, else the exception.
RunClass(o) == IF o \in {"TimeoutExpired", "FileNotFoundError"} THEN "caught" ELSE o

\* file_pattern.match(line): anchored at the start of the line.
IsHeader(line) == line.file # EmptyStr /\ ~line.lead

\* coverage_pattern.search(line): anywhere in the line.
IsCoverage(line) == line.pct >= 0

HasKey(tbl, name) == \E k \in 1..Len(tbl) : tbl[k].name = name

KeyIndex(tbl, name) == CHOOSE k \in 1..Len(tbl) : tbl[k].name = name

Entry(name, cov, total) == [name |-> name, cov |-> cov, total |-> total]

\* Faulty variant of Store: total >= prev_total, so a tie replaces the entry.
StoreLatestOnTie(tbl, name, cov, total) ==
    IF HasKey(tbl, name)
    THEN IF total >= tbl[KeyIndex(tbl, name)].total
         THEN [tbl EXCEPT ![KeyIndex(tbl, name)] = Entry(name, cov, total)]
         ELSE tbl
    ELSE Append(tbl, Entry(name, cov, total))

\* Store or update coverage for this file (lines 134-140).
Store(tbl, name, cov, total) ==
    IF HasKey(tbl, name)
    THEN IF total > tbl[KeyIndex(tbl, name)].total
         THEN [tbl EXCEPT ![KeyIndex(tbl, name)] = Entry(name, cov, total)]
         ELSE tbl
    ELSE Append(tbl, Entry(name, cov, total))

\* Faulty variant of ScanLine: without `current_file = None` at line 142.
ScanLineKeepsCursor(line, cur, tbl) ==
    IF IsHeader(line)
    THEN [cursor |-> line.file, table |-> tbl]
    ELSE IF IsCoverage(line) /\ cur # EmptyStr
         THEN [cursor |-> cur,
               table  |-> Store(tbl, cur, Covered(line.pct, line.of), line.of)]
         ELSE [cursor |-> cur, table |-> tbl]

\* The body of `for line in output.split('\n')`: the new cursor and table.
ScanLine(line, cur, tbl) ==
    IF IsHeader(line)
    THEN [cursor |-> line.file, table |-> tbl]
    ELSE IF IsCoverage(line) /\ cur # EmptyStr
         THEN [cursor |-> EmptyStr,
               table  |-> Store(tbl, cur, Covered(line.pct, line.of), line.of)]
         ELSE [cursor |-> cur, table |-> tbl]

\* The filter-and-aggregate loop over file_coverage.items(), from entry k on.
RECURSIVE Aggregate(_, _, _, _)
Aggregate(tbl, fs, k, acc) ==
    IF k > Len(tbl) THEN acc
    ELSE IF Matches(tbl[k].name, fs)
         THEN Aggregate(tbl, fs, k + 1,
                        [total   |-> acc.total + tbl[k].total,
                         covered |-> acc.covered + tbl[k].cov,
                         matched |-> Append(acc.matched, tbl[k])])
         ELSE Aggregate(tbl, fs, k + 1, acc)

Acc0 == [total |-> 0, covered |-> 0, matched |-> <<>>]

\* Path(build_dir) with build_dir None raises TypeError.
GcovNoDir ==
    /\ pc = "gcov_discover"
    /\ args.gcov_dir = NoneStr
    /\ Crash("traceback")
    /\ UNCHANGED <<args, filters, idx, coverage, hist>>
    /\ UNCHANGED jsonVars /\ UNCHANGED gcovVars

\* Faulty variant of GcovDiscover: without the `if not gcda_files` return.
GcovDiscoverNoEarlyReturn ==
    /\ pc = "gcov_discover"
    /\ args.gcov_dir # NoneStr
    /\ \E n \in 0..MaxGcda :
        /\ gcda_files' = n
        /\ idx' = 1
        /\ pc' = "gcov_run"
        /\ UNCHANGED <<coverage, stderr>>
    /\ UNCHANGED <<args, filters, current_file, file_coverage,
                   stdout, exit, hist>>
    /\ UNCHANGED jsonVars

\* gcda_files = list(build_path.rglob("*.gcda")) and the empty-list return.
GcovDiscover ==
    /\ pc = "gcov_discover"
    /\ args.gcov_dir # NoneStr
    /\ \E n \in 0..MaxGcda :
        /\ gcda_files' = n
        /\ IF n = 0
           THEN /\ stderr' = Append(stderr, Diag("no_gcda"))
                /\ coverage' = NoCoverage
                /\ pc' = "main_ret"
                /\ UNCHANGED idx
           ELSE /\ idx' = 1
                /\ pc' = "gcov_run"
                /\ UNCHANGED <<coverage, stderr>>
    /\ UNCHANGED <<args, filters, current_file, file_coverage,
                   stdout, exit, hist>>
    /\ UNCHANGED jsonVars

\* Faulty variant of GcovRun: without `current_file = None` at line 120.
GcovRunStaleCursor ==
    /\ pc = "gcov_run"
    /\ idx <= gcda_files
    /\ \E o \in RunOutcomes :
        /\ hist' = [hist EXCEPT !.runs = Append(@, RunClass(o)), !.line = NoLine]
        /\ CASE o \in {"TimeoutExpired", "FileNotFoundError"} ->
                  /\ stderr' = Append(stderr, DiagRun("gcov_failed", idx))
                  /\ idx' = idx + 1
                  /\ UNCHANGED <<pc, current_file, stdout, exit>>
             [] o = "PermissionError" ->
                  /\ Crash("traceback")
                  /\ UNCHANGED <<idx, current_file>>
             [] o \in {"ok", "nonzero"} ->
                  /\ pc' = "gcov_scan"
                  /\ UNCHANGED <<idx, current_file, stdout, stderr, exit>>
    /\ UNCHANGED <<args, filters, gcda_files, file_coverage, coverage>>
    /\ UNCHANGED jsonVars

\* subprocess.run for data file idx, the except clause, and
\* `current_file = None` before the scan.
GcovRun ==
    /\ pc = "gcov_run"
    /\ idx <= gcda_files
    /\ \E o \in RunOutcomes :
        /\ hist' = [hist EXCEPT !.runs = Append(@, RunClass(o)), !.line = NoLine]
        /\ CASE o \in {"TimeoutExpired", "FileNotFoundError"} ->
                  /\ stderr' = Append(stderr, DiagRun("gcov_failed", idx))
                  /\ idx' = idx + 1
                  /\ UNCHANGED <<pc, current_file, stdout, exit>>
             [] o = "PermissionError" ->
                  /\ Crash("traceback")
                  /\ UNCHANGED <<idx, current_file>>
             [] o \in {"ok", "nonzero"} ->
                  /\ current_file' = EmptyStr
                  /\ pc' = "gcov_scan"
                  /\ UNCHANGED <<idx, stdout, stderr, exit>>
    /\ UNCHANGED <<args, filters, gcda_files, file_coverage, coverage>>
    /\ UNCHANGED jsonVars

\* One line of the captured output goes through the scanner.
GcovLineUpTo(limit) ==
    /\ pc = "gcov_scan"
    /\ hist.scanned < limit
    /\ \E line \in LinePool :
        LET r       == ScanLine(line, current_file, file_coverage)
            applied == ~IsHeader(line) /\ IsCoverage(line) /\ current_file # EmptyStr
        IN  /\ current_file' = r.cursor
            /\ file_coverage' = r.table
            /\ hist' = [hist EXCEPT
                 !.line = line,
                 !.applied = applied,
                 !.scanned = @ + 1,
                 !.lastHdr = IF IsHeader(line)
                             THEN [run |-> idx, file |-> line.file] ELSE @,
                 !.used = IF IsHeader(line) THEN FALSE
                          ELSE IF applied THEN TRUE ELSE @,
                 !.reports = IF applied
                             THEN Append(@, [file  |-> current_file,
                                             pct   |-> line.pct,
                                             total |-> line.of,
                                             run   |-> idx,
                                             hrun  |-> hist.lastHdr.run])
                             ELSE @]
    /\ UNCHANGED <<pc, args, filters, idx, gcda_files, coverage>>
    /\ UNCHANGED jsonVars /\ UNCHANGED outVars

GcovLine == GcovLineUpTo(MaxLines)

GcovLineScan == GcovLineUpTo(ScanLines)

\* The captured output is exhausted: on to the next data file.
GcovEndOfOutput ==
    /\ pc = "gcov_scan"
    /\ idx' = idx + 1
    /\ pc' = "gcov_run"
    /\ hist' = [hist EXCEPT !.line = NoLine, !.applied = FALSE]
    /\ UNCHANGED <<args, filters, coverage, gcda_files, current_file, file_coverage>>
    /\ UNCHANGED jsonVars /\ UNCHANGED outVars

\* Filter and aggregate results (lines 144-166).
GcovFinish ==
    /\ pc = "gcov_run"
    /\ idx > gcda_files
    /\ LET a == Aggregate(file_coverage, filters, 1, Acc0) IN
        /\ total_lines' = a.total
        /\ covered_lines' = a.covered
        /\ matched_files' = a.matched
        /\ IF a.total = 0
           THEN /\ stderr' = Append(stderr, Diag("no_match"))
                /\ coverage' = NoCoverage
           ELSE /\ stderr' = Append(stderr, Diag("matched"))
                                \o [k \in 1..Len(a.matched) |-> Diag("matched_file")]
                /\ coverage' = Pct(a.covered, a.total)
    /\ pc' = "main_ret"
    /\ UNCHANGED <<args, filters, data, idx, stdout, exit, hist>>
    /\ UNCHANGED gcovVars

\* ---------------------------------------------------------------- main (2)
\* Faulty variant of MainReturn: a failure prints 0.0 before it exits 1.
MainReturnPrintsZero ==
    /\ pc = "main_ret"
    /\ IF coverage.some
       THEN /\ stdout' = Append(stdout, Format1(coverage))
            /\ exit' = 0
       ELSE /\ stdout' = Append(stdout, Format1(Pct(0, 1)))
            /\ exit' = 1
    /\ pc' = "exited"
    /\ UNCHANGED <<args, filters, idx, coverage, stderr, hist>>
    /\ UNCHANGED jsonVars /\ UNCHANGED gcovVars

\* print(f"{coverage:.1f}"); return 0   /   return 1
MainReturn ==
    /\ pc = "main_ret"
    /\ IF coverage.some
       THEN /\ stdout' = Append(stdout, Format1(coverage))
            /\ exit' = 0
       ELSE /\ stdout' = stdout
            /\ exit' = 1
    /\ pc' = "exited"
    /\ UNCHANGED <<args, filters, idx, coverage, stderr, hist>>
    /\ UNCHANGED jsonVars /\ UNCHANGED gcovVars

Next ==
    \/ ParseHelp
    \/ ParseError
    \/ Dispatch
    \/ JsonLoad
    \/ JsonBadShape
    \/ JsonRecord
    \/ JsonFinish
    \/ GcovNoDir
    \/ GcovDiscover
    \/ GcovRun
    \/ GcovLine
    \/ GcovEndOfOutput
    \/ GcovFinish
    \/ MainReturn

Spec == Init /\ [][Next]_vars

\* The gcov-runner extractor alone, on longer outputs: --gcov-dir build
\* without -f.
InitScan ==
    /\ Init
    /\ args = [json |-> NoneStr, gcov_dir |-> "build", filters |-> <<>>,
               help |-> FALSE]

NextScan ==
    \/ Dispatch
    \/ GcovDiscover
    \/ GcovRun
    \/ GcovLineScan
    \/ GcovEndOfOutput
    \/ GcovFinish
    \/ MainReturn

SpecScan == InitScan /\ [][NextScan]_vars

\* =================================================================== claims
Range(f) == {f[k] : k \in DOMAIN f}

HasDiag(tag) == \E k \in 1..Len(stderr) : stderr[k].tag = tag

\* The command line passed parse_args and selected an extractor: it holds
\* no -h or --help, and exactly one of --json and --gcov-dir.
Parsed == ~args.help /\ ((args.json = NoneStr) # (args.gcov_dir = NoneStr))

JsonMode == Parsed /\ args.json \notin {NoneStr, ""}
GcovMode == Parsed /\ args.json \in {NoneStr, ""}

Returned == pc \in {"main_ret", "exited"}

\* calculate_from_json / calculate_from_gcov ran to one of its two final
\* return statements.
JsonDone == JsonMode /\ Returned /\ (HasDiag("no_match") \/ HasDiag("matched"))
GcovDone == GcovMode /\ Returned /\ (HasDiag("no_match") \/ HasDiag("matched"))

\* p occurs in s: s is some u, then p, then some v.
Occurs(p, s) ==
    \E i \in 0..Len(s) : \E j \in i..Len(s) :
        SubSeq(s, 1, i) \o p \o SubSeq(s, j + 1, Len(s)) = s

\* The patterns a command line asks for: its -f values, or src/ without any.
PatternsOf(a) == IF Len(a.filters) = 0 THEN {SrcSlash} ELSE Range(a.filters)

Wanted(name) == \E p \in PatternsOf(args) : Occurs(p, name)

DigitSet == {"0", "1", "2", "3", "4", "5", "6", "7", "8", "9"}

DigitVal(ch) == CHOOSE d \in 0..9 : DigitChar(d) = ch

RECURSIVE NumVal(_)
NumVal(ds) == IF ds = <<>> THEN 0
              ELSE 10 * NumVal(SubSeq(ds, 1, Len(ds) - 1)) + DigitVal(ds[Len(ds)])

\* A line of the form D+ "." D, read as a number of tenths.
IsOneDecimal(txt) ==
    /\ Len(txt) >= 3
    /\ txt[Len(txt) - 1] = "."
    /\ \A k \in (1..Len(txt)) \ {Len(txt) - 1} : txt[k] \in DigitSet

Tenths(txt) == 10 * NumVal(SubSeq(txt, 1, Len(txt) - 2)) + DigitVal(txt[Len(txt)])

RECURSIVE SubFrom(_, _, _, _)
SubFrom(x, y, i, borrow) ==
    IF i > Len(x) THEN <<>>
    ELSE LET s == x[i] - Limb(y, i) - borrow
         IN  <<(s + Base) % Base>> \o SubFrom(x, y, i + 1, IF s < 0 THEN 1 ELSE 0)

\* x - y for x >= y
SubNat(x, y) == Trim(SubFrom(x, y, 1, 0))

RECURSIVE LessFrom(_, _, _)
LessFrom(x, y, i) == IF i = 0 THEN FALSE
                     ELSE IF x[i] # y[i] THEN x[i] < y[i]
                     ELSE LessFrom(x, y, i - 1)

LessNat(x, y) == IF Len(x) # Len(y) THEN Len(x) < Len(y)
                 ELSE LessFrom(x, y, Len(x))

AbsDiff(x, y) == IF LessNat(x, y) THEN SubNat(y, x) ELSE SubNat(x, y)

\* The value of the float c, times b, stands to the integer a as
\* FloatTimes(c, b) stands to IntScaled(c, a).
FloatTimes(c, b) == Shl(MulNat(c.m, NatOf(b)), IF c.e > 0 THEN c.e ELSE 0)
IntScaled(c, a)  == Shl(NatOf(a), IF c.e < 0 THEN -c.e ELSE 0)

\* The float c is exactly a / b.
IsRatio(c, a, b) == ~c.neg /\ FloatTimes(c, b) = IntScaled(c, a)

\* The float c is a / b up to a relative error of 2^-51 (two roundings).
NearRatio(c, a, b) ==
    /\ ~c.neg
    /\ ~LessNat(IntScaled(c, a),
                Shl(AbsDiff(FloatTimes(c, b), IntScaled(c, a)), 51))

\* 0 <= c <= 100
IsPercentage(c) == ~c.neg /\ ~LessNat(IntScaled(c, 100), FloatTimes(c, 1))

\* txt is c to one decimal place: within half a tenth of the value of c.
ShowsPct(txt, c) ==
    /\ IsOneDecimal(txt)
    /\ ~c.neg
    /\ ~LessNat(IntScaled(c, 1),
                AbsDiff(FloatTimes(c, 20), IntScaled(c, 2 * Tenths(txt))))

Success == exit = 0 /\ Len(stdout) = 1 /\ coverage.some /\ ShowsPct(stdout[1], coverage)
Failure == exit = 1 /\ stdout = <<>>

\* C1 (as stated): every run of main ends either with exactly one line, the
\* percentage to one decimal place, on standard output and exit status 0,
\* or with nothing on standard output and exit status 1.
C1_EveryRunTwoOutcomes ==
    pc = "exited" => (Success \/ Failure)

\* C1 (amended): every run of main whose command line passes the argument
\* parser ends in one of the two outcomes: success iff the extractor
\* returned a percentage, failure (nothing on standard output, status 1)
\* otherwise, uncaught exceptions included; nothing is written to standard
\* output before the run ends.
C1_ParsedRunTwoOutcomes ==
    /\ (pc = "exited" /\ Parsed) => (Success \/ Failure)
    /\ (pc = "exited" /\ Parsed /\ coverage.some) => Success
    /\ (pc # "exited" /\ Parsed) => (stdout = <<>> /\ exit = -1)

C1_Witness ==
    /\ pc = "exited" /\ Parsed /\ exit = 0
    /\ covered_lines = 23 /\ total_lines = 80
    /\ stdout = <<(<<"2", "8", ".", "7">>)>>
    /\ HasDiag("matched")

\* Records 1..n of the document that the aggregate must contain.
Included(n) ==
    {k \in 1..n : /\ "filename" \in DOMAIN data.files[k]
                  /\ Wanted(data.files[k].filename)
                  /\ "line_total" \in DOMAIN data.files[k]
                  /\ data.files[k].line_total > 0}

RECURSIVE SumTotal(_)
SumTotal(ks) ==
    IF ks = {} THEN 0
    ELSE LET k == CHOOSE x \in ks : TRUE
         IN  data.files[k].line_total + SumTotal(ks \ {k})

RECURSIVE SumCovered(_)
SumCovered(ks) ==
    IF ks = {} THEN 0
    ELSE LET k == CHOOSE x \in ks : TRUE
         IN  (IF "line_covered" \in DOMAIN data.files[k]
              THEN data.files[k].line_covered ELSE 0) + SumCovered(ks \ {k})

RECURSIVE NamesOf(_, _)
NamesOf(ks, n) ==
    IF n = 0 THEN <<>>
    ELSE IF n \in ks THEN Append(NamesOf(ks, n - 1), data.files[n].filename)
         ELSE NamesOf(ks, n - 1)

\* C2 (as stated): calculate_from_json sums line_covered and line_total over
\* exactly the records whose filename matches the FilterSet and whose
\* line_total is positive, and returns 100 * covered / total of those
\* records, or no result when that total is 0.
C2_JsonAggregateExact ==
    (JsonMode /\ hist.loaded = "ok" /\ data.shape = "object"
        /\ pc \in {"json_loop", "main_ret", "exited"}) =>
    LET n  == IF pc = "json_loop" THEN idx - 1 ELSE Len(data.files)
        ks == Included(n)
    IN  /\ total_lines = SumTotal(ks)
        /\ covered_lines = SumCovered(ks)
        /\ matched_files = NamesOf(ks, n)
        /\ Returned =>
             /\ coverage.some = (SumTotal(ks) > 0)
             /\ coverage.some =>
                  IsRatio(coverage, 100 * SumCovered(ks), SumTotal(ks))

\* C2 (amended): the sums and the matched list are as stated (after every
\* iteration, so a record with line_total = 0 changes neither sum nor the
\* list), and the value returned is the float (covered / total) * 100 of
\* those records, each operation rounded: 100 * covered / total up to a
\* relative error of 2^-51, not always that quotient itself (23 of 80
\* gives 28.749999999999996); no result when that total is 0.
C2_JsonAggregate ==
    (JsonMode /\ hist.loaded = "ok" /\ data.shape = "object"
        /\ pc \in {"json_loop", "main_ret", "exited"}) =>
    LET n  == IF pc = "json_loop" THEN idx - 1 ELSE Len(data.files)
        ks == Included(n)
    IN  /\ total_lines = SumTotal(ks)
        /\ covered_lines = SumCovered(ks)
        /\ matched_files = NamesOf(ks, n)
        /\ Returned =>
             /\ coverage.some = (SumTotal(ks) > 0)
             /\ coverage.some =>
                  /\ coverage = Pct(SumCovered(ks), SumTotal(ks))
                  /\ NearRatio(coverage, 100 * SumCovered(ks), SumTotal(ks))

C2_Witness ==
    /\ JsonDone /\ coverage.some
    /\ Len(data.files) = 2
    /\ data.files[1] = [filename |-> NameSrcA, line_total |-> 0, line_covered |-> 49]
    /\ data.files[2] = [filename |-> NameLibA, line_total |-> 80, line_covered |-> 23]
    /\ matched_files = <<NameLibA>>
    /\ ~IsRatio(coverage, 2300, 80)

\* C3: in both extractors a filename is selected iff at least one pattern of
\* the FilterSet occurs in it as a substring, and a command line without
\* patterns selects exactly what the single pattern src/ selects.
C3_SubstringOrMatch ==
    /\ JsonDone =>
         \A k \in 1..Len(data.files) :
            Get(data.files[k], "line_total", 0) > 0 =>
              (Get(data.files[k], "filename", EmptyStr) \in Range(matched_files)
                 <=> Wanted(Get(data.files[k], "filename", EmptyStr)))
    /\ GcovDone =>
         /\ \A k \in 1..Len(file_coverage) :
              (file_coverage[k] \in Range(matched_files))
                 <=> Wanted(file_coverage[k].name)
         /\ Range(matched_files) \subseteq Range(file_coverage)

C3_Witness ==
    /\ GcovDone
    /\ args.filters = <<>>
    /\ Len(file_coverage) = 2
    /\ Len(matched_files) = 1
    /\ matched_files[1].name = NameLibA

\* cov = floor(total * percent / 100) for the numbers of report r.
IsFloorOf(cov, r) ==
    /\ 10000 * cov <= r.total * r.pct
    /\ r.total * r.pct < 10000 * (cov + 1)

ReportsFor(name) == {i \in 1..Len(hist.reports) : hist.reports[i].file = name}

\* The first report for name among those with the largest total.
Winner(name) ==
    CHOOSE i \in ReportsFor(name) :
        \A j \in ReportsFor(name) :
            \/ hist.reports[j].total < hist.reports[i].total
            \/ (hist.reports[j].total = hist.reports[i].total /\ i <= j)

\* C4: whatever reports calculate_from_gcov has processed, the table holds
\* exactly one entry for each reported filename and none for any other, and
\* that entry is the first-seen report among those with the largest total
\* for the filename (a later report with an equal or smaller total leaves
\* covered and total as they were).
C4_FirstSeenLargestTotal ==
    /\ \A name \in GcovNames :
         Cardinality({k \in 1..Len(file_coverage) : file_coverage[k].name = name})
            = IF ReportsFor(name) = {} THEN 0 ELSE 1
    /\ \A k \in 1..Len(file_coverage) :
         /\ ReportsFor(file_coverage[k].name) # {}
         /\ LET w == hist.reports[Winner(file_coverage[k].name)]
            IN  /\ file_coverage[k].total = w.total
                /\ file_coverage[k].cov = Covered(w.pct, w.total)

C4_Witness ==
    /\ Len(hist.reports) = 3
    /\ \A i \in 1..3 : hist.reports[i].file = NameLibA
    /\ hist.reports[1].total = 3
    /\ hist.reports[2].total = 375 /\ hist.reports[2].pct = 1840
    /\ hist.reports[3].total = 375 /\ hist.reports[3].pct = 10000
    /\ file_coverage = <<Entry(NameLibA, 68, 375)>>

Failed(o) == o \in {"caught", "PermissionError", "nonzero"}

\* C5 (as stated): a failure of the annotator invocation for one data file
\* (timeout, tool unavailable, data file unreadable) never aborts the run:
\* a warning names the data file, no table entry is recorded or updated from
\* it, and once the extractor returns every discovered data file has been
\* processed.
C5_FailedInvocationSkipped ==
    /\ \A i \in 1..Len(hist.runs) :
         Failed(hist.runs[i]) =>
            /\ \E k \in 1..Len(stderr) : stderr[k] = DiagRun("gcov_failed", i)
            /\ ~HasDiag("traceback")
            /\ \A j \in 1..Len(hist.reports) : hist.reports[j].run # i
    /\ (GcovMode /\ Returned /\ gcda_files > 0 /\ hist.runs # <<>>) =>
         Len(hist.runs) = gcda_files

\* C6 (as stated): when the path does not exist or the document is not
\* well-formed structured data of the expected shape, calculate_from_json
\* returns None with the read/parse diagnostic: no crash, no aggregate.
C6_BadInputIsReadError ==
    (JsonMode /\ Returned
        /\ \/ hist.loaded \in {"FileNotFoundError", "JSONDecodeError"}
           \/ (hist.loaded = "ok" /\ data.shape # "object")) =>
    /\ ~HasDiag("traceback")
    /\ HasDiag("read_error")
    /\ ~coverage.some
    /\ ~HasDiag("matched")

\* Total of the table entries whose name the command line asks for.
RECURSIVE WantedTotal(_)
WantedTotal(k) ==
    IF k = 0 THEN 0
    ELSE (IF Wanted(file_coverage[k].name) THEN file_coverage[k].total ELSE 0)
         + WantedTotal(k - 1)

\* C7: when discovery finds no data file, calculate_from_gcov returns the
\* failure result without any annotator invocation and with the 'no data
\* files found' diagnostic, never the 'no matching files' one; the latter
\* is emitted only after at least one data file was discovered and when
\* the filtered total is zero.
C7_NoDataFilesDiagnostic ==
    /\ (GcovMode /\ Returned /\ ~HasDiag("traceback") /\ gcda_files = 0) =>
         /\ HasDiag("no_gcda")
         /\ ~HasDiag("no_match")
         /\ ~coverage.some
         /\ hist.runs = <<>>
    /\ HasDiag("no_gcda") => (GcovMode /\ gcda_files = 0)
    /\ (GcovMode /\ HasDiag("no_match")) =>
         /\ gcda_files >= 1
         /\ WantedTotal(Len(file_coverage)) = 0
         /\ ~HasDiag("no_gcda")
         /\ ~coverage.some

C7_Witness ==
    /\ pc = "exited" /\ GcovMode
    /\ gcda_files = 0
    /\ stderr = <<Diag("no_gcda")>>
    /\ exit = 1

Lookup(tbl, name) ==
    {[cov |-> tbl[k].cov, total |-> tbl[k].total] :
        k \in {j \in 1..Len(tbl) : tbl[j].name = name}}

\* C8: in the line scanner a header line sets the cursor and nothing else; a
\* coverage-number line is applied to the table iff the cursor is set, the
\* entry it records or updates is the one of the most recent header line's
\* filename, the cursor is unset right afterwards and no header line is
\* used twice; a coverage-number line met with the cursor unset and a line
\* matching neither pattern leave table and cursor unchanged.
C8_ScannerStep ==
    [][(pc = "gcov_scan" /\ hist'.scanned = hist.scanned + 1) =>
        LET l   == hist'.line
            hdr == l.file # EmptyStr /\ ~l.lead
            num == l.pct >= 0 /\ ~hdr
            new == hist'.applied
            r   == hist'.reports[Len(hist'.reports)]
        IN  /\ hdr => (current_file' = l.file /\ file_coverage' = file_coverage)
            /\ new <=> (num /\ current_file # EmptyStr)
            /\ ~new => hist'.reports = hist.reports
            /\ new =>
                 /\ current_file' = EmptyStr
                 /\ Len(hist'.reports) = Len(hist.reports) + 1
                 /\ r.file = hist.lastHdr.file /\ r.total = l.of /\ r.pct = l.pct
                 /\ ~hist.used
                 /\ Lookup(file_coverage', r.file) # {}
                 /\ Lookup(file_coverage', r.file) \subseteq
                       Lookup(file_coverage, r.file)
                          \cup {[cov   |-> Covered(r.pct, r.total),
                                 total |-> r.total]}
                 /\ \A name \in GcovNames \ {r.file} :
                       Lookup(file_coverage', name) = Lookup(file_coverage, name)
            /\ (~hdr /\ ~new) =>
                 (current_file' = current_file /\ file_coverage' = file_coverage)
      ]_vars

C8_Witness ==
    /\ pc = "gcov_scan" /\ hist.scanned = 3
    /\ Len(hist.runs) = 1
    /\ Len(hist.reports) = 1
    /\ hist.line \in CoverageLines /\ ~hist.applied
    /\ hist.used
    /\ current_file = EmptyStr
    /\ Len(file_coverage) = 1

\* C9 (as stated): every entry that enters an aggregate has
\* 0 <= covered <= total, an entry computed from the annotator output being
\* covered = floor(total * percent / 100) of the numbers of a
\* coverage-number line; so the covered sum never exceeds the total sum and
\* a returned percentage lies in [0, 100].
C9_CoveredWithinTotal ==
    /\ \A k \in 1..Len(file_coverage) :
         /\ 0 <= file_coverage[k].cov
         /\ file_coverage[k].cov <= file_coverage[k].total
         /\ \E i \in ReportsFor(file_coverage[k].name) :
              /\ hist.reports[i].total = file_coverage[k].total
              /\ IsFloorOf(file_coverage[k].cov, hist.reports[i])
    /\ 0 <= covered_lines /\ covered_lines <= total_lines
    /\ coverage.some => IsPercentage(coverage)

\* C10: the cursor is unset when the scan of a data file's output starts, so
\* a header line is only ever paired with a coverage-number line of the
\* same annotator invocation.
C10_CursorResetPerDataFile ==
    /\ (pc = "gcov_scan" /\ hist.line = NoLine) => current_file = EmptyStr
    /\ \A i \in 1..Len(hist.reports) : hist.reports[i].hrun = hist.reports[i].run

C10_Witness ==
    /\ pc = "gcov_scan" /\ idx = 2
    /\ hist.runs = <<"ok", "ok">>
    /\ hist.lastHdr.run = 1 /\ ~hist.used
    /\ hist.line \in CoverageLines /\ ~hist.applied
    /\ hist.reports = <<>>
    /\ file_coverage = <<>>
====
